---- MODULE Spec2Model ----
(***************************************************************************)
(* StochasticPolicy (garage.torch.policies.stochastic_policy): the two     *)
(* inference entry points get_action and get_actions, modelled as a        *)
(* sequential program whose steps are the statements of the two methods.   *)
(*                                                                         *)
(* A numeric value (python object, numpy array or torch tensor) is a       *)
(* record  [kind, shape, data, dev, grad, elem]:                           *)
(*   kind  "raw"     a python scalar or nested python list                 *)
(*         "ndarray" a numpy array                                         *)
(*         "tensor"  a torch tensor                                        *)
(*         "list"    a python list whose items are arrays or tensors       *)
(*         "none"    no value                                              *)
(*   shape the extents of its axes, data its elements in row-major order,  *)
(*   dev   the device holding it, grad whether it is attached to a         *)
(*   differentiation graph, elem the kind of the items of a "list".        *)
(***************************************************************************)
EXTENDS Integers, Sequences, FiniteSets, TLC

\* Largest extent of an axis (and largest length of a python list batch).
MaxDim == 2
\* Largest rank of one observation instance.
MaxRank == 2
\* Largest number of calls the caller makes on one observation object.
MaxCalls == 3

VARIABLES
    cfg,            \* the collaborators: model stub, global device, fault
    input,          \* the caller's observation object as it was created
    callerObj,      \* the caller's observation object as it is now
    gradEnabled,    \* torch's gradient mode
    scopes,         \* the active no_grad scopes: the mode each one saved
    gradAtCall,     \* gradient mode when the caller's call started
    pc,             \* position in the program
    entry,          \* the entry point the caller called
    calls,          \* number of calls the caller has made
    observation,    \* get_action's local
    observations,   \* get_actions' local
    policy_input,   \* get_actions' local
    dist,           \* get_actions' local: the distribution forward returned
    info,           \* get_actions' local: the info map forward returned
    sampled,        \* get_actions' first component of the returned pair
    action,         \* get_action's local
    agent_infos,    \* get_action's local
    result,         \* what the caller's call produced
    history,        \* per entry point, what its first finished call produced
    trace           \* the operations the caller's current call performed

vars == <<cfg, input, callerObj, gradEnabled, scopes, gradAtCall, pc, entry,
          calls, observation, observations, policy_input, dist, info, sampled,
          action, agent_infos, result, history, trace>>

-----------------------------------------------------------------------------
(* Values *)

RECURSIVE Prod(_)
Prod(s) == IF s = <<>> THEN 1 ELSE Head(s) * Prod(Tail(s))

Rank(o) == Len(o.shape)

Arr(kind, shape, data, dev, grad, elem) ==
    [kind |-> kind, shape |-> shape, data |-> data, dev |-> dev,
     grad |-> grad, elem |-> elem]

NoVal == Arr("none", <<>>, <<>>, "cpu", FALSE, "-")

InfoKeys == {"mean", "log_std"}

NoInfo == [k \in {} |-> NoVal]

Devices == {"cpu", "cuda"}

Faults == {"none", "flatten", "as_torch", "forward", "sample", "info"}

\* The shapes of the caller's objects: r axes, all of extent d.
Shapes(maxRank) ==
    {[i \in 1..r |-> d] : r \in 0..maxRank, d \in 1..MaxDim}

Ramp(n) == [i \in 1..n |-> i]

\* The caller's objects: single observations and batches alike (which one an
\* object is depends on the entry point it is handed to).
Inputs ==
    {Arr(k, s, Ramp(Prod(s)), "cpu", FALSE, "-") :
        k \in {"raw", "ndarray", "tensor"}, s \in Shapes(MaxRank + 1)}
    \cup
    {Arr("list", <<n>> \o s, Ramp(n * Prod(s)), "cpu", FALSE, e) :
        e \in {"ndarray", "tensor"}, n \in 1..MaxDim, s \in Shapes(MaxRank)}

\* [x] : the python list holding the one observation x.
ListOf(x) ==
    IF x.kind = "raw"
    THEN [x EXCEPT !.shape = <<1>> \o x.shape]
    ELSE [x EXCEPT !.kind = "list", !.elem = x.kind, !.shape = <<1>> \o x.shape]

\* a[0]
Index0(a) ==
    [a EXCEPT !.shape = Tail(a.shape),
              !.data = SubSeq(a.data, 1, Prod(Tail(a.shape)))]

-----------------------------------------------------------------------------
(* The collaborators *)

\* observation_space.flatten: one observation to its canonical flat array.
flatten(o) == Arr("ndarray", <<Prod(o.shape)>>, o.data, "cpu", FALSE, "-")

\* observation_space.flatten_n: a batch to its canonical N x flat array.
flatten_n(o) ==
    Arr("ndarray", <<Head(o.shape), Prod(Tail(o.shape))>>, o.data, "cpu",
        FALSE, "-")

\* torch.flatten(t)
torch_flatten(t) == [t EXCEPT !.shape = <<Prod(t.shape)>>]

\* torch.flatten(t, start_dim=1)
torch_flatten_start1(t) ==
    [t EXCEPT !.shape = <<Head(t.shape), Prod(Tail(t.shape))>>]

\* np.stack / torch.stack of a python list of equally shaped items.
stack(l) == [l EXCEPT !.kind = l.elem, !.elem = "-"]

\* as_torch: a tensor on the global device holding the same elements.
as_torch(o, device) ==
    Arr("tensor", o.shape, o.data, device, FALSE, "-")

\* The new axis added behind the others: t.unsqueeze(-1).
unsqueeze_last(t) == [t EXCEPT !.shape = t.shape \o <<1>>]

\* t.unsqueeze(0): a new tensor with a leading axis of extent 1.
unsqueeze(t) == [t EXCEPT !.shape = <<1>> \o t.shape]

\* The operand after the in-place t.unsqueeze_(0).
unsqueeze_operand_in_place(t) == unsqueeze(t)

\* The operand of t.unsqueeze(0) after the call: unsqueeze is not in place.
unsqueeze_operand(t) == t

\* A scope that leaves the mode as it finds it.
no_grad_enter_noop(mode) == mode

\* torch.no_grad().__enter__ : the mode inside the scope.
no_grad_enter(mode) == FALSE

\* A scope that switches gradients on when it exits, whatever it saved.
no_grad_exit_on(prev, mode) == TRUE

\* torch.no_grad().__exit__ : the mode after a scope that saved prev.
no_grad_exit(prev, mode) == prev

\* The exits of every active scope, innermost first (exception unwinding).
RECURSIVE unwind(_, _)
unwind(saved, mode) ==
    IF saved = <<>> THEN mode
    ELSE unwind(SubSeq(saved, 1, Len(saved) - 1),
                no_grad_exit(saved[Len(saved)], mode))

\* t.detach(), t.cpu()
detach(t) == [t EXCEPT !.grad = FALSE]
cpu(t) == [t EXCEPT !.dev = "cpu"]

\* t.numpy() raises for a tensor off the host or attached to a graph.
numpy_raises(t) == t.dev # "cpu" \/ t.grad
numpy(t) == [t EXCEPT !.kind = "ndarray"]

\* The rows the model stub sees: the first axis is the batch axis when the
\* payload has one, else the payload is one unbatched row.
Rows(t) ==
    IF Rank(t) >= 2
    THEN [i \in 1..Head(t.shape) |->
            SubSeq(t.data, (i - 1) * Prod(Tail(t.shape)) + 1,
                   i * Prod(Tail(t.shape)))]
    ELSE <<t.data>>

RECURSIVE Weighted(_, _)
Weighted(row, j) ==
    IF j > Len(row) THEN 0 ELSE j * row[j] + Weighted(row, j + 1)

RECURSIVE Sum(_)
Sum(row) == IF row = <<>> THEN 0 ELSE Head(row) + Sum(Tail(row))

OutShape(t) == IF Rank(t) >= 2 THEN <<Head(t.shape), 1>> ELSE <<1>>

\* forward of a deterministic model stub: the distribution (the tensor its
\* sample() draws) and the info map, one row per row of the payload.  The
\* info tensors live on the model's device and may be attached to a graph;
\* the sample is attached only when gradients are being recorded.
forward(pin, mode, c) ==
    LET rows == Rows(pin.observations)
        n == Len(rows)
        out(f(_), g) ==
            Arr("tensor", OutShape(pin.observations),
                [i \in 1..n |-> f(rows[i])], c.device, g, "-")
    IN  [dist |-> out(LAMBDA r : Weighted(r, 1), mode /\ c.infoGrad),
         info |-> [k \in InfoKeys |->
                     IF k = "mean" THEN out(Sum, c.infoGrad)
                     ELSE out(Len, c.infoGrad)]]

\* dist.sample()
sample(d) == d


-----------------------------------------------------------------------------
(* Normalization: the statements before the no_grad scope *)

Ok(v, ops) == [val |-> v, err |-> "", ops |-> ops]
Err(e, ops) == [val |-> NoVal, err |-> e, ops |-> ops]

\* A call into the observation space, which raises under the "flatten" fault.
SpaceCall(v, op, fail) ==
    IF fail = "flatten" THEN Err("flatten", <<op>>) ELSE Ok(v, <<op>>)

\* get_action without its tensor branch: a tensor of any rank passes.
get_action_normalize_no_tensor_branch(o, fail) ==
    IF o.kind \notin {"ndarray", "tensor"}
    THEN SpaceCall(flatten(o), "space.flatten", fail)
    ELSE IF o.kind = "ndarray" /\ Rank(o) > 1
    THEN SpaceCall(flatten(o), "space.flatten", fail)
    ELSE Ok(o, <<>>)

\* get_action, lines 30-38.
get_action_normalize(o, fail) ==
    IF o.kind \notin {"ndarray", "tensor"}
    THEN SpaceCall(flatten(o), "space.flatten", fail)
    ELSE IF o.kind = "ndarray" /\ Rank(o) > 1
    THEN SpaceCall(flatten(o), "space.flatten", fail)
    ELSE IF o.kind = "tensor" /\ Rank(o) > 1
    THEN Ok(torch_flatten(o), <<"torch.flatten">>)
    ELSE Ok(o, <<>>)

\* The type of observations[0]: indexing a rank-0 value raises, an item of a
\* rank-1 numpy array is a numpy scalar (no np.ndarray), an item of a tensor
\* is a tensor.
Item0Kind(o) ==
    IF Rank(o) = 0 THEN "IndexError"
    ELSE IF o.kind = "list" THEN o.elem
    ELSE IF o.kind = "ndarray" /\ Rank(o) = 1 THEN "scalar"
    ELSE o.kind

\* len(observations[0].shape)
Item0Rank(o) == Rank(o) - 1

\* get_actions, lines 62-65: raw items go through flatten_n.
flatten_raw(o, fail) ==
    IF Item0Kind(o) = "IndexError" THEN Err("IndexError", <<>>)
    ELSE IF Item0Kind(o) \notin {"ndarray", "tensor"}
    THEN SpaceCall(flatten_n(o), "space.flatten_n", fail)
    ELSE Ok(o, <<>>)

\* get_actions, lines 69-73: a python list of arrays or tensors is stacked.
stack_list(o) ==
    IF o.kind = "list"
    THEN IF o.elem = "ndarray" THEN Ok(stack(o), <<"np.stack">>)
         ELSE IF o.elem = "tensor" THEN Ok(stack(o), <<"torch.stack">>)
         ELSE Ok(o, <<>>)
    ELSE Ok(o, <<>>)

\* The batch flattened as one observation: flatten in place of flatten_n.
flatten_items_single(o, fail) ==
    IF Item0Kind(o) = "ndarray" /\ Item0Rank(o) > 1
    THEN SpaceCall(flatten(o), "space.flatten_n", fail)
    ELSE IF Item0Kind(o) = "tensor" /\ Item0Rank(o) > 1
    THEN Ok(torch_flatten(o), <<"torch.flatten_start1">>)
    ELSE Ok(o, <<>>)

\* Tensors sent through the observation space as arrays are.
flatten_items_via_space(o, fail) ==
    IF Item0Kind(o) \in {"ndarray", "tensor"} /\ Item0Rank(o) > 1
    THEN SpaceCall(flatten_n(o), "space.flatten_n", fail)
    ELSE Ok(o, <<>>)

\* get_actions, lines 75-81: items of rank above 1 are flattened.
flatten_items(o, fail) ==
    IF Item0Kind(o) = "ndarray" /\ Item0Rank(o) > 1
    THEN SpaceCall(flatten_n(o), "space.flatten_n", fail)
    ELSE IF Item0Kind(o) = "tensor" /\ Item0Rank(o) > 1
    THEN Ok(torch_flatten_start1(o), <<"torch.flatten_start1">>)
    ELSE Ok(o, <<>>)

\* get_actions, lines 62-81.
get_actions_normalize(o, fail) ==
    LET a == flatten_raw(o, fail) IN
    IF a.err # "" THEN a ELSE
    LET b == stack_list(a.val) IN
    LET c == flatten_items(b.val, fail) IN
    IF c.err # "" THEN Err(c.err, a.ops \o b.ops \o c.ops)
    ELSE Ok(c.val, a.ops \o b.ops \o c.ops)

\* Lines 40-41 and 83-84: as_torch unless the value is a tensor already.
to_tensor(o, c) ==
    IF o.kind # "tensor"
    THEN IF c.failAt = "as_torch" THEN Err("as_torch", <<"as_torch">>)
         ELSE Ok(as_torch(o, c.device), <<"as_torch">>)
    ELSE Ok(o, <<>>)

\* Line 85.
PolicyInput(mode, obs) == [mode |-> mode, observations |-> obs]

NoInput == PolicyInput("none", NoVal)

\* Line 87, first component: dist.sample().cpu().numpy()
sample_to_host(d, c) ==
    IF c.failAt = "sample" THEN Err("sample", <<"sample">>)
    ELSE IF numpy_raises(cpu(sample(d)))
    THEN Err("numpy", <<"sample", "to_host">>)
    ELSE Ok(numpy(cpu(sample(d))), <<"sample", "to_host">>)

\* The info entry handed back as it is: no detach, no transfer, no array.
host_array_raw(v) == [raises |-> FALSE, val |-> v]

\* Lines 88-90, one entry: v.detach().cpu().numpy()
host_array(v) ==
    [raises |-> numpy_raises(cpu(detach(v))), val |-> numpy(cpu(detach(v)))]

\* Lines 88-90: the keys of the returned mapping.
info_keys(i) == DOMAIN i

\* Lines 88-90: the dict comprehension over info.items().
info_to_host(i, c) ==
    IF c.failAt = "info" THEN Err("info", <<"info_to_host">>)
    ELSE IF \E k \in info_keys(i) : host_array(i[k]).raises
    THEN Err("numpy", <<"info_to_host">>)
    ELSE Ok([k \in info_keys(i) |-> host_array(i[k]).val], <<"info_to_host">>)

\* Line 44: action[0], {k: v[0] for k, v in agent_infos.items()}
unbatch(a, infos) ==
    [action |-> Index0(a), info |-> [k \in DOMAIN infos |-> Index0(infos[k])]]

-----------------------------------------------------------------------------
(* Outcomes *)

Returned(a, i) == [status |-> "ok", action |-> a, info |-> i, err |-> ""]

NoResult == [status |-> "none", action |-> NoVal, info |-> NoInfo, err |-> ""]

\* The exception swallowed and an empty pair returned in its place.
propagate_fallback(e) == Returned(NoVal, NoInfo)

\* An exception leaving get_action / get_actions: no handler catches it.
propagate(e) == [status |-> "raised", action |-> NoVal, info |-> NoInfo, err |-> e]

Entries == {"get_action", "get_actions", "get_actions_of_list"}

-----------------------------------------------------------------------------
(* The program *)

Init ==
    /\ cfg \in [failAt : Faults, device : Devices, infoGrad : BOOLEAN]
    /\ input \in Inputs
    /\ callerObj = input
    /\ gradEnabled \in BOOLEAN
    /\ scopes = <<>>
    /\ gradAtCall = gradEnabled
    /\ pc = "idle"
    /\ entry = "none"
    /\ calls = 0
    /\ observation = NoVal
    /\ observations = NoVal
    /\ policy_input = NoInput
    /\ dist = NoVal
    /\ info = NoInfo
    /\ sampled = NoVal
    /\ action = NoVal
    /\ agent_infos = NoInfo
    /\ result = NoResult
    /\ history = [e \in Entries |-> NoResult]
    /\ trace = <<>>

\* The call ends: the caller sees res, the first outcome of each entry point
\* is remembered.
Finish(res) ==
    /\ result' = res
    /\ pc' = "done"
    /\ history' = IF history[entry].status = "none"
                  THEN [history EXCEPT ![entry] = res] ELSE history

\* An exception raised at this statement: every active scope exits, the
\* exception reaches the caller.
Raise(e, ops) ==
    /\ Finish(propagate(e))
    /\ gradEnabled' = unwind(scopes, gradEnabled)
    /\ scopes' = <<>>
    /\ trace' = trace \o ops \o <<"raise">>
                \o [i \in 1..Len(scopes) |-> "no_grad.exit"]

BeginCall(e) ==
    /\ pc \in {"idle", "done"}
    /\ calls < MaxCalls
    /\ calls' = calls + 1
    /\ entry' = e
    /\ gradAtCall' = gradEnabled
    /\ result' = NoResult
    /\ trace' = IF e = "get_action" THEN <<"get_action">>
                ELSE <<"get_actions">>
    /\ policy_input' = NoInput
    /\ dist' = NoVal
    /\ info' = NoInfo
    /\ sampled' = NoVal
    /\ action' = NoVal
    /\ agent_infos' = NoInfo
    /\ UNCHANGED <<cfg, input, callerObj, gradEnabled, scopes, history>>

\* The caller calls get_action(callerObj).
CallGetAction ==
    /\ BeginCall("get_action")
    /\ observation' = callerObj
    /\ observations' = NoVal
    /\ pc' = "a_normalize"

\* The caller calls get_actions(callerObj), or get_actions([callerObj]).
CallGetActions ==
    \E wrapped \in BOOLEAN :
        /\ wrapped => callerObj.kind # "list"
        /\ BeginCall(IF wrapped THEN "get_actions_of_list" ELSE "get_actions")
        /\ observation' = NoVal
        /\ observations' = IF wrapped THEN ListOf(callerObj) ELSE callerObj
        /\ pc' = "b_normalize"

\* get_action, lines 30-38.
GetActionNormalize ==
    /\ pc = "a_normalize"
    /\ LET r == get_action_normalize(observation, cfg.failAt) IN
       IF r.err # ""
       THEN /\ Raise(r.err, r.ops)
            /\ UNCHANGED observation
       ELSE /\ observation' = r.val
            /\ trace' = trace \o r.ops
            /\ pc' = "a_enter"
            /\ UNCHANGED <<gradEnabled, scopes, result, history>>
    /\ UNCHANGED <<cfg, input, callerObj, gradAtCall, entry, calls,
                   observations, policy_input, dist, info, sampled, action,
                   agent_infos>>

\* get_action, line 39: with torch.no_grad().
GetActionEnter ==
    /\ pc = "a_enter"
    /\ scopes' = Append(scopes, gradEnabled)
    /\ gradEnabled' = no_grad_enter(gradEnabled)
    /\ trace' = Append(trace, "no_grad.enter")
    /\ pc' = "a_delegate"
    /\ UNCHANGED <<cfg, input, callerObj, gradAtCall, entry, calls,
                   observation, observations, policy_input, dist, info,
                   sampled, action, agent_infos, result, history>>

\* get_action, lines 40-43: as_torch, unsqueeze(0), the call of get_actions.
\* The local is the caller's own object exactly when no statement so far
\* replaced it (each of them changes the kind or the shape).
GetActionDelegate ==
    /\ pc = "a_delegate"
    /\ LET r == to_tensor(observation, cfg) IN
       IF r.err # ""
       THEN /\ Raise(r.err, r.ops)
            /\ UNCHANGED <<observation, observations, callerObj>>
       ELSE /\ observation' = unsqueeze(r.val)
            /\ callerObj' = IF r.val = callerObj
                            THEN unsqueeze_operand(callerObj) ELSE callerObj
            /\ observations' = unsqueeze(r.val)
            /\ trace' = trace \o r.ops \o <<"unsqueeze", "get_actions">>
            /\ pc' = "b_normalize"
            /\ UNCHANGED <<gradEnabled, scopes, result, history>>
    /\ UNCHANGED <<cfg, input, gradAtCall, entry, calls, policy_input, dist,
                   info, sampled, action, agent_infos>>

\* get_actions, lines 62-81.
GetActionsNormalize ==
    /\ pc = "b_normalize"
    /\ LET r == get_actions_normalize(observations, cfg.failAt) IN
       IF r.err # ""
       THEN /\ Raise(r.err, r.ops)
            /\ UNCHANGED observations
       ELSE /\ observations' = r.val
            /\ trace' = trace \o r.ops
            /\ pc' = "b_enter"
            /\ UNCHANGED <<gradEnabled, scopes, result, history>>
    /\ UNCHANGED <<cfg, input, callerObj, gradAtCall, entry, calls,
                   observation, policy_input, dist, info, sampled, action,
                   agent_infos>>

\* get_actions, line 82: with torch.no_grad().
GetActionsEnter ==
    /\ pc = "b_enter"
    /\ scopes' = Append(scopes, gradEnabled)
    /\ gradEnabled' = no_grad_enter(gradEnabled)
    /\ trace' = Append(trace, "no_grad.enter")
    /\ pc' = "b_input"
    /\ UNCHANGED <<cfg, input, callerObj, gradAtCall, entry, calls,
                   observation, observations, policy_input, dist, info,
                   sampled, action, agent_infos, result, history>>

\* get_actions, lines 83-85: as_torch, PolicyInput(PolicyMode.ROLLOUT, ...).
GetActionsInput ==
    /\ pc = "b_input"
    /\ LET r == to_tensor(observations, cfg) IN
       IF r.err # ""
       THEN /\ Raise(r.err, r.ops)
            /\ UNCHANGED <<observations, policy_input>>
       ELSE /\ observations' = r.val
            /\ policy_input' = PolicyInput("ROLLOUT", r.val)
            /\ trace' = trace \o r.ops
            /\ pc' = "b_forward"
            /\ UNCHANGED <<gradEnabled, scopes, result, history>>
    /\ UNCHANGED <<cfg, input, callerObj, gradAtCall, entry, calls,
                   observation, dist, info, sampled, action, agent_infos>>

\* get_actions, line 86: dist, info = self.forward(policy_input).
GetActionsForward ==
    /\ pc = "b_forward"
    /\ IF cfg.failAt = "forward"
       THEN /\ Raise("forward", <<"forward">>)
            /\ UNCHANGED <<dist, info>>
       ELSE /\ dist' = forward(policy_input, gradEnabled, cfg).dist
            /\ info' = forward(policy_input, gradEnabled, cfg).info
            /\ trace' = Append(trace, "forward")
            /\ pc' = "b_sample"
            /\ UNCHANGED <<gradEnabled, scopes, result, history>>
    /\ UNCHANGED <<cfg, input, callerObj, gradAtCall, entry, calls,
                   observation, observations, policy_input, sampled, action,
                   agent_infos>>

\* get_actions, line 87: dist.sample().cpu().numpy().
GetActionsSample ==
    /\ pc = "b_sample"
    /\ LET r == sample_to_host(dist, cfg) IN
       IF r.err # ""
       THEN /\ Raise(r.err, r.ops)
            /\ UNCHANGED sampled
       ELSE /\ sampled' = r.val
            /\ trace' = trace \o r.ops
            /\ pc' = "b_info"
            /\ UNCHANGED <<gradEnabled, scopes, result, history>>
    /\ UNCHANGED <<cfg, input, callerObj, gradAtCall, entry, calls,
                   observation, observations, policy_input, dist, info,
                   action, agent_infos>>

\* get_actions, lines 88-90: the info entries to the host, the scope exits,
\* the pair is returned (to get_action at line 43, or to the caller).
GetActionsReturn ==
    /\ pc = "b_info"
    /\ LET r == info_to_host(info, cfg) IN
       IF r.err # ""
       THEN /\ Raise(r.err, r.ops)
            /\ UNCHANGED <<action, agent_infos>>
       ELSE /\ gradEnabled' = no_grad_exit(scopes[Len(scopes)], gradEnabled)
            /\ scopes' = SubSeq(scopes, 1, Len(scopes) - 1)
            /\ trace' = trace \o r.ops \o <<"no_grad.exit", "return">>
            /\ IF entry = "get_action"
               THEN /\ action' = sampled
                    /\ agent_infos' = r.val
                    /\ pc' = "a_return"
                    /\ UNCHANGED <<result, history>>
               ELSE /\ Finish(Returned(sampled, r.val))
                    /\ UNCHANGED <<action, agent_infos>>
    /\ UNCHANGED <<cfg, input, callerObj, gradAtCall, entry, calls,
                   observation, observations, policy_input, dist, info,
                   sampled>>

\* get_action, line 44: index 0 of the action and of every info value, the
\* scope exits, the pair is returned to the caller.
GetActionReturn ==
    /\ pc = "a_return"
    /\ Finish(Returned(unbatch(action, agent_infos).action,
                       unbatch(action, agent_infos).info))
    /\ gradEnabled' = no_grad_exit(scopes[Len(scopes)], gradEnabled)
    /\ scopes' = SubSeq(scopes, 1, Len(scopes) - 1)
    /\ trace' = trace \o <<"unbatch", "no_grad.exit", "return">>
    /\ UNCHANGED <<cfg, input, callerObj, gradAtCall, entry, calls,
                   observation, observations, policy_input, dist, info,
                   sampled, action, agent_infos>>

Next ==
    \/ CallGetAction
    \/ CallGetActions
    \/ GetActionNormalize
    \/ GetActionEnter
    \/ GetActionDelegate
    \/ GetActionsNormalize
    \/ GetActionsEnter
    \/ GetActionsInput
    \/ GetActionsForward
    \/ GetActionsSample
    \/ GetActionsReturn
    \/ GetActionReturn

Spec == Init /\ [][Next]_vars

-----------------------------------------------------------------------------
(* Vocabulary of the properties *)

Count(seq, x) == Cardinality({i \in DOMAIN seq : seq[i] = x})

\* The argument the caller handed to the entry point.
Arg == IF entry = "get_actions_of_list" THEN ListOf(input) ELSE input

Direct == entry \in {"get_actions", "get_actions_of_list"}

\* A supported encoding of one observation: raw structured, or a numpy array
\* or tensor that is flat or multi-dimensional.
SupportedSingle(x) ==
    \/ x.kind = "raw"
    \/ x.kind \in {"ndarray", "tensor"} /\ Rank(x) >= 1

\* A supported encoding of a batch: a raw structured batch, a stacked array or
\* tensor of flat or multi-dimensional items, a list of such items.
SupportedBatch(b) ==
    \/ b.kind = "raw" /\ Rank(b) >= 1
    \/ b.kind \in {"ndarray", "tensor", "list"} /\ Rank(b) >= 2

\* A value handed to the caller that is a plain host array.
HostArray(a) == a.kind = "ndarray" /\ a.dev = "cpu" /\ ~a.grad

\* The outcome of a batch call, taken at index 0.
Unbatched(r) ==
    IF r.status = "ok"
    THEN Returned(unbatch(r.action, r.info).action,
                  unbatch(r.action, r.info).info)
    ELSE r

\* The operations of the get_actions frame of the current call.
FrameStart ==
    CHOOSE i \in DOMAIN trace :
        trace[i] = "get_actions" /\ \A j \in DOMAIN trace : trace[j] = "get_actions" => j <= i
Frame == SubSeq(trace, FrameStart + 1, Len(trace))

NormalizeOps ==
    {"space.flatten", "space.flatten_n", "torch.flatten",
     "torch.flatten_start1", "np.stack", "torch.stack"}

\* The operations a fault makes raise.
FaultOps(f) ==
    CASE f = "flatten" -> {"space.flatten", "space.flatten_n"}
      [] f = "as_torch" -> {"as_torch"}
      [] f = "forward" -> {"forward"}
      [] f = "sample" -> {"sample"}
      [] f = "info" -> {"info_to_host"}
      [] OTHER -> {}

-----------------------------------------------------------------------------
(* Properties *)

\* C1: batch/unbatch consistency. For every supported encoding of a single
\* observation x and a deterministic stub, what get_action(x) produces is
\* what get_actions([x]) produces with the action and every info value taken
\* at index 0 (same action, same keys, same values; the same error when the
\* collaborators raise).
C1_BatchUnbatchConsistency ==
    ( /\ SupportedSingle(input)
      /\ history["get_action"].status # "none"
      /\ history["get_actions_of_list"].status # "none" )
    => history["get_action"] = Unbatched(history["get_actions_of_list"])

C1_Witness ==
    /\ history["get_action"].status = "ok"
    /\ history["get_actions_of_list"].status = "ok"
    /\ input.kind = "ndarray"
    /\ input.shape = <<2, 2>>

\* C2: the batch dimension is preserved by get_actions. For a batch of N
\* observations in a supported encoding the payload handed to forward has N
\* rows, the returned action array has N entries, every returned info value
\* has N entries, and the returned keys are the keys of the model's info map.
C2_BatchDimensionPreserved ==
    (Direct /\ SupportedBatch(Arg)) =>
        /\ pc = "b_forward" =>
              /\ Rank(policy_input.observations) >= 1
              /\ Head(policy_input.observations.shape) = Head(Arg.shape)
              /\ Len(Rows(policy_input.observations)) = Head(Arg.shape)
        /\ (pc = "done" /\ result.status = "ok") =>
              /\ Head(result.action.shape) = Head(Arg.shape)
              /\ DOMAIN result.info = DOMAIN info
              /\ \A k \in DOMAIN result.info :
                    Head(result.info[k].shape) = Head(Arg.shape)

C2_Witness ==
    /\ pc = "done"
    /\ entry = "get_actions"
    /\ result.status = "ok"
    /\ input.kind = "list"
    /\ input.shape = <<2, 2, 2>>
    /\ Head(result.action.shape) = 2

\* C3: every value returned to the caller by get_action or get_actions (the
\* action and every info value) is a host array detached from any
\* differentiation graph, whatever device the model used and whether or not
\* its info tensors were attached to a graph.
C3_OutputsDetachedOnHost ==
    (pc = "done" /\ result.status = "ok") =>
        /\ HostArray(result.action)
        /\ \A k \in DOMAIN result.info : HostArray(result.info[k])

C3_Witness ==
    /\ pc = "done"
    /\ result.status = "ok"
    /\ cfg.device = "cuda"
    /\ cfg.infoGrad
    /\ \A k \in DOMAIN info : info[k].dev = "cuda" /\ info[k].grad
    /\ DOMAIN result.info = InfoKeys

\* C4: the no-differentiation scope is exited on all paths. After a call of
\* get_action or get_actions finishes, normally or by raising, no scope is
\* active and the gradient mode is what it was before the call; in get_action
\* the inner scope of get_actions exits while the outer one stays active.
C4_ScopeExitedOnAllPaths ==
    /\ pc = "done" => (scopes = <<>> /\ gradEnabled = gradAtCall)
    /\ pc = "a_return" =>
          (scopes = <<gradAtCall>> /\ gradEnabled = no_grad_enter(gradAtCall))

C4_Witness ==
    /\ pc = "done"
    /\ entry = "get_action"
    /\ result.status = "raised"
    /\ result.err = "forward"
    /\ gradAtCall
    /\ Count(trace, "no_grad.exit") = 2

\* C5: a call either returns a fully formed (actions, info) pair or raises.
\* An error of normalization, forward, sample or an info conversion reaches
\* the caller unchanged and with no value; no operation that raised is
\* retried or replaced by a fallback (forward runs at most once per call).
C5_ReturnsFullyOrRaises ==
    /\ Count(trace, "forward") <= 1
    /\ pc = "done" =>
        /\ result.status \in {"ok", "raised"}
        /\ result.status = "ok" =>
              /\ result.err = ""
              /\ result.action.kind = "ndarray"
              /\ DOMAIN result.info = DOMAIN info
              /\ DOMAIN info = InfoKeys
              /\ \A k \in DOMAIN result.info : result.info[k].kind = "ndarray"
        /\ result.status = "raised" =>
              /\ result.action = NoVal
              /\ result.info = NoInfo
              /\ result.err \in {cfg.failAt, "IndexError"} \ {"none"}
        /\ (\E i \in DOMAIN trace : trace[i] \in FaultOps(cfg.failAt)) =>
              (result.status = "raised" /\ result.err = cfg.failAt)

C5_Witness ==
    /\ pc = "done"
    /\ entry = "get_actions"
    /\ result.status = "raised"
    /\ result.err = "info"
    /\ sampled.kind = "ndarray"
    /\ result.action = NoVal

\* C6: the observation payload handed to forward is always flat. Whenever
\* forward is about to be invoked, from get_actions directly or through
\* get_action, the payload of the PolicyInput is a tensor of rank exactly 2,
\* for every input representation.
C6_ForwardPayloadIsRank2 ==
    pc = "b_forward" =>
        /\ policy_input.observations.kind = "tensor"
        /\ Rank(policy_input.observations) = 2

\* C7: idempotence of inference. With a deterministic stub, every finished
\* call of an entry point on the same input produces what the first finished
\* call of that entry point on it produced, whatever calls were made in
\* between, and no call changes the caller's observation object.
C7_Idempotent ==
    /\ callerObj = input
    /\ pc = "done" => result = history[entry]

C7_Witness ==
    /\ pc = "done"
    /\ calls >= 2
    /\ result.status = "ok"
    /\ \A e \in Entries \ {entry} : history[e].status = "none"
    /\ input.kind = "tensor"
    /\ Rank(input) = 1

\* C8 as claimed: every numeric input, numpy array or tensor alike, whose
\* per-instance rank exceeds 1 is flattened via the observation space's
\* transform (flatten for a single instance, flatten_n for a batch); a list
\* batch is stacked first.
C8_Claimed_SpaceTransformForAllNumeric ==
    /\ ( /\ pc = "a_enter"
         /\ input.kind \in {"ndarray", "tensor"}
         /\ Rank(input) > 1 )
       => Tail(trace) = <<"space.flatten">>
    /\ ( /\ pc = "b_enter"
         /\ Direct
         /\ Arg.kind \in {"ndarray", "tensor", "list"}
         /\ Item0Rank(Arg) > 1 )
       => /\ trace[Len(trace)] = "space.flatten_n"
          /\ Arg.kind = "list" =>
                Tail(trace) \in {<<"np.stack", "space.flatten_n">>,
                                 <<"torch.stack", "space.flatten_n">>}

\* C8 amended: a numpy array whose per-instance rank exceeds 1 is flattened
\* via the observation space's transform (flatten for a single instance,
\* flatten_n for a batch), as raw observations are; a tensor whose
\* per-instance rank exceeds 1 is flattened by torch.flatten (all axes for a
\* single instance, from axis 1 for a batch) and never by the observation
\* space; a batch given as a plain list of arrays or tensors is stacked first
\* and the rank check is applied to the stacked batch.
C8_FlattenRule ==
    /\ ( /\ pc = "a_enter"
         /\ input.kind \in {"ndarray", "tensor"}
         /\ Rank(input) > 1 )
       => /\ Tail(trace) = IF input.kind = "ndarray"
                           THEN <<"space.flatten">> ELSE <<"torch.flatten">>
          /\ observation.kind = input.kind
          /\ observation.shape = <<Prod(input.shape)>>
          /\ observation.data = input.data
    /\ ( /\ pc = "b_enter"
         /\ Direct
         /\ Arg.kind \in {"ndarray", "tensor", "list"}
         /\ Item0Rank(Arg) > 1 )
       => LET k == IF Arg.kind = "list" THEN Arg.elem ELSE Arg.kind
              stk == IF Arg.kind # "list" THEN <<>>
                     ELSE IF k = "ndarray" THEN <<"np.stack">>
                     ELSE <<"torch.stack">>
              flt == IF k = "ndarray" THEN <<"space.flatten_n">>
                     ELSE <<"torch.flatten_start1">>
          IN  /\ Tail(trace) = stk \o flt
              /\ observations.kind = k
              /\ observations.shape =
                    <<Head(Arg.shape), Prod(Tail(Arg.shape))>>
              /\ observations.data = Arg.data

C8_Witness ==
    /\ pc = "b_enter"
    /\ entry = "get_actions"
    /\ input.kind = "list"
    /\ input.elem = "tensor"
    /\ input.shape = <<2, 2, 2>>
    /\ Tail(trace) = <<"torch.stack", "torch.flatten_start1">>

\* C9: ordering of a successful get_actions call. Normalization completes
\* first, then the no-differentiation scope is entered, then forward is
\* invoked exactly once with a PolicyInput whose mode is ROLLOUT, then
\* sample() exactly once, then the outputs go to the host; forward and
\* sample() are never invoked while the scope is inactive, and forward never
\* sees another mode than ROLLOUT.
C9_GetActionsOrdering ==
    /\ pc \in {"b_forward", "b_sample"} => (scopes # <<>> /\ ~gradEnabled)
    /\ pc = "b_forward" => policy_input.mode = "ROLLOUT"
    /\ ( \/ pc = "a_return"
         \/ pc = "done" /\ Direct /\ result.status = "ok" )
       => \E n \in 0..Len(Frame) :
             /\ \A i \in 1..n : Frame[i] \in NormalizeOps
             /\ SubSeq(Frame, n + 1, Len(Frame)) \in
                   { <<"no_grad.enter">> \o conv \o
                     <<"forward", "sample", "to_host", "info_to_host",
                       "no_grad.exit", "return">> :
                     conv \in {<<>>, <<"as_torch">>} }

C9_Witness ==
    /\ pc = "done"
    /\ entry = "get_actions"
    /\ result.status = "ok"
    /\ gradAtCall
    /\ Tail(trace) = <<"np.stack", "space.flatten_n", "no_grad.enter",
                       "as_torch", "forward", "sample", "to_host",
                       "info_to_host", "no_grad.exit", "return">>

\* C10: a single-instance call is a batch-of-one call. Every get_action call
\* on a supported observation encoding (one the observation space and
\* as_torch accept) invokes get_actions exactly once, with a tensor of batch
\* size 1 whose single row is flat, so that no flatten or stack rule of
\* get_actions fires in the delegated call, and the observation space's
\* flattening transform is applied at most once in the whole call.
C10_SingleIsBatchOfOne ==
    (entry = "get_action" /\ SupportedSingle(input)) =>
        /\ Count(trace, "get_actions") <= 1
        /\ Count(trace, "space.flatten") + Count(trace, "space.flatten_n") <= 1
        /\ (pc = "done" /\ result.err \notin {"flatten", "as_torch"}) =>
              Count(trace, "get_actions") = 1
        /\ pc = "b_normalize" =>
              /\ observations.kind = "tensor"
              /\ observations.shape = <<1, Prod(input.shape)>>
              /\ observations.data = input.data
        /\ Count(trace, "get_actions") = 1 =>
              \A i \in DOMAIN Frame : Frame[i] \notin NormalizeOps

C10_Witness ==
    /\ pc = "done"
    /\ entry = "get_action"
    /\ result.status = "ok"
    /\ input.kind = "raw"
    /\ input.shape = <<2, 2>>
    /\ Count(trace, "get_actions") = 1
    /\ Count(trace, "space.flatten") = 1

=============================================================================
